---- MODULE Spec2Model ----
(***************************************************************************)
(* Patient portal backend: the relational schema of app/models/patient.py  *)
(* (tables, unique indexes, foreign keys, column defaults, server-side     *)
(* timestamps) and the exception handlers of app/main.py.                  *)
(*                                                                         *)
(* A table is a function from the primary keys of its stored rows to the   *)
(* rows.  Every store operation is one request: it runs against the tables *)
(* and the request ends with the HTTP response, which for a failed         *)
(* operation is built by the exception handler registered for the class of *)
(* the exception raised.                                                   *)
(***************************************************************************)
EXTENDS Integers, Sequences, FiniteSets, TLC

VARIABLES
    patients,       \* table "patients":      id -> row
    providers,      \* table "providers":     id -> row
    appointments,   \* table "appointments":  id -> row
    medications,    \* table "medications":   id -> row
    messages,       \* table "messages":      id -> row
    health_alerts,  \* table "health_alerts": id -> row
    clock,          \* the reading of the wall clock (func.now(), time.time())
    inflight,       \* create-Patient requests between their pre-check and their INSERT
    created,        \* the Appointments created, in order, as the requests gave them
    result,         \* the last operation: what it was, on which id, the exception raised
    response        \* the HTTP response that ended the last request

tables == <<patients, providers, appointments, medications, messages, health_alerts>>
vars == <<patients, providers, appointments, medications, messages, health_alerts,
          clock, inflight, created, result, response>>

----------------------------------------------------------------------------
(* Bounds of the model. *)

MaxParents == 3
MaxChildren == 2
MaxClock == 2
MaxClients == 2

(* Input values. *)

Emails == {"a@x.com", "b@x.com"}
MRNs == {"MRN-1", "MRN-2"}
Dates == {10, 20}
AppointmentStatuses == {"scheduled", "confirmed", "completed", "cancelled", "no-show"}
RequestIds == {"req-1", "req-2"}

\* A column that holds no value; a request that carries no X-Request-ID header.
NULL == 0
NoHeader == "<absent>"
Headers == RequestIds \cup {NoHeader}

----------------------------------------------------------------------------
(* Identity: id = Column(UUID, primary_key=True, default=uuid.uuid4).  A    *)
(* fresh uuid4 differs from every id handed out before, in any table; an   *)
(* id is written <<table, n>>, n counting the rows of the table.           *)

AllIds ==
    DOMAIN patients \cup DOMAIN providers \cup DOMAIN appointments
        \cup DOMAIN medications \cup DOMAIN messages \cup DOMAIN health_alerts

NewId(t, name) == <<name, Cardinality(DOMAIN t) + 1>>

NewPatientId == NewId(patients, "patient")
NewProviderId == NewId(providers, "provider")
NewAppointmentId == NewId(appointments, "appointment")
NewMedicationId == NewId(medications, "medication")
NewMessageId == NewId(messages, "message")
NewHealthAlertId == NewId(health_alerts, "health_alert")

\* An id that was never created, in any table.
NeverCreated == <<"none", 1>>

\* The ids a request for a row of table t may name: every stored one and one
\* that was never created.
Targets(t) == DOMAIN t \cup {NeverCreated}

\* The ids a request may give as a patient or a provider reference: a stored
\* Patient, a stored Provider, or an id that was never created.
RefIds == DOMAIN patients \cup DOMAIN providers \cup {NeverCreated}

\* The store has room for another Patient or Provider / for another row that
\* belongs to a Patient.
ParentRoom == Cardinality(DOMAIN patients \cup DOMAIN providers) < MaxParents
Room ==
    Cardinality(DOMAIN appointments \cup DOMAIN medications \cup DOMAIN messages
                    \cup DOMAIN health_alerts) < MaxChildren

\* Primary-key lookup: the row of table t with id i exists.
Exists(t, i) == i \in DOMAIN t

\* INSERT of one row / UPDATE of the row with primary key i.
InsertRow(t, i, row) == [j \in DOMAIN t \cup {i} |-> IF j = i THEN row ELSE t[j]]
UpdateRow(t, i, row) == [j \in DOMAIN t |-> IF j = i THEN row ELSE t[j]]

----------------------------------------------------------------------------
(* Column defaults and server-side timestamps. *)

\* created_at: server_default=func.now(); updated_at: no default, onupdate=func.now().
CreatedAtDefault == clock
UpdatedAtDefault == NULL
OnUpdate == clock

\* Mutation: another default for appointments.status.
DefaultStatusConfirmed == "confirmed"

DefaultAppointmentStatus == "scheduled"
DefaultMedicationStatus == "active"
DefaultIsActive == TRUE
DefaultIsRead == FALSE
DefaultReadAt == NULL

----------------------------------------------------------------------------
(* Constraints of the schema. *)

\* Mutation: the unique index on medical_record_number is missing.
PatientUniqueViolationEmailOnly(t, self, email, mrn) ==
    \E j \in DOMAIN t \ {self} : t[j].email = email

\* Mutation: neither column has a unique index.
PatientNoUniqueIndex(t, self, email, mrn) == FALSE

\* unique=True on patients.email and patients.medical_record_number: the row
\* (email, mrn) cannot be stored beside the rows of t other than row `self`.
PatientUniqueViolation(t, self, email, mrn) ==
    \E j \in DOMAIN t \ {self} :
        t[j].email = email \/ t[j].medical_record_number = mrn

\* unique=True on providers.email.
ProviderUniqueViolation(t, self, email) ==
    \E j \in DOMAIN t \ {self} : t[j].email = email

\* Mutation: patient_id is a plain column, not a foreign key.
PatientFkUnchecked(pid) == FALSE

\* ForeignKey("patients.id") / ForeignKey("providers.id"), nullable=False.
PatientFkViolation(pid) == ~Exists(patients, pid)
ProviderFkViolation(vid) == ~Exists(providers, vid)

----------------------------------------------------------------------------
(* Exceptions.  The store's errors are PatientPortalException subclasses    *)
(* carrying error_code, message, details and status_code.                  *)

NoExc == [class |-> "none"]

StoreErrors == {"ConflictError", "ValidationError", "NotFoundError"}

StatusCodeOf(name) ==
    CASE name = "ConflictError" -> 409
      [] name = "NotFoundError" -> 404
      [] OTHER -> 400

StoreError(name, details) ==
    [class |-> "PatientPortalException", name |-> name, error_code |-> name,
     message |-> name, details |-> details, status_code |-> StatusCodeOf(name)]

\* What the routes and the framework can raise besides the store's errors.
ApplicationExceptions ==
    {StoreError(n, d) : n \in StoreErrors, d \in {"none", "field"}}
ValidationExceptions ==
    {[class |-> "RequestValidationError", errors |-> e] :
        e \in {<<"email: field required">>, <<"email: invalid">>,
               <<"email: invalid", "date_of_birth: invalid">>}}
UnexpectedExceptions ==
    {[class |-> "Exception", type |-> t, text |-> x] :
        t \in {"OperationalError", "KeyError"},
        x \in {"could not connect to server db-1", "'insurance_info'"}}

----------------------------------------------------------------------------
(* app/main.py: the exception handlers. *)

\* request.headers.get("X-Request-ID", "unknown")
RequestIdOf(request) == IF request = NoHeader THEN "unknown" ELSE request

\* Mutation: the handler answers 500 whatever the exception's status_code.
PortalHandlerFixedStatus(request, exc) ==
    [status_code |-> 500,
     content |->
        [success |-> FALSE,
         error |-> [code |-> exc.error_code, message |-> exc.message,
                    details |-> exc.details],
         meta |-> [timestamp |-> clock, request_id |-> RequestIdOf(request)]]]

patient_portal_exception_handler(request, exc) ==
    [status_code |-> exc.status_code,
     content |->
        [success |-> FALSE,
         error |-> [code |-> exc.error_code, message |-> exc.message,
                    details |-> exc.details],
         meta |-> [timestamp |-> clock, request_id |-> RequestIdOf(request)]]]

\* Mutation: the validation handler leaves request_id out of meta.
ValidationHandlerNoRequestId(request, exc) ==
    [status_code |-> 422,
     content |->
        [success |-> FALSE,
         error |-> [code |-> "VALIDATION_ERROR",
                    message |-> "Request validation failed",
                    details |-> exc.errors],
         meta |-> [timestamp |-> clock]]]

validation_exception_handler(request, exc) ==
    [status_code |-> 422,
     content |->
        [success |-> FALSE,
         error |-> [code |-> "VALIDATION_ERROR",
                    message |-> "Request validation failed",
                    details |-> exc.errors],
         meta |-> [timestamp |-> clock, request_id |-> RequestIdOf(request)]]]

\* Mutation: the handler passes the exception's text on to the caller.
GeneralHandlerLeaks(request, exc) ==
    [status_code |-> 500,
     content |->
        [success |-> FALSE,
         error |-> [code |-> "INTERNAL_SERVER_ERROR", message |-> exc.text,
                    details |-> "null"],
         meta |-> [timestamp |-> clock, request_id |-> RequestIdOf(request)]]]

general_exception_handler(request, exc) ==
    [status_code |-> 500,
     content |->
        [success |-> FALSE,
         error |-> [code |-> "INTERNAL_SERVER_ERROR",
                    message |-> "An unexpected error occurred",
                    details |-> "null"],
         meta |-> [timestamp |-> clock, request_id |-> RequestIdOf(request)]]]

\* @app.exception_handler(cls): the handler registered for the exception's class.
HandleException(request, exc) ==
    CASE exc.class = "PatientPortalException" ->
            patient_portal_exception_handler(request, exc)
      [] exc.class = "RequestValidationError" ->
            validation_exception_handler(request, exc)
      [] OTHER -> general_exception_handler(request, exc)

\* The response of a request that raised nothing.
SuccessResponse == [status_code |-> 200, content |-> [success |-> TRUE]]

\* The end of a request: the operation is recorded and the response is sent.
Finish(op, entity, id, request, exc) ==
    /\ result' = [op |-> op, entity |-> entity, id |-> id, request |-> request,
                  exc |-> exc]
    /\ response' = IF exc.class = "none" THEN SuccessResponse
                   ELSE HandleException(request, exc)

\* Partial field update: the columns the patch names take its values.
Merge(row, patch) ==
    [k \in DOMAIN row |-> IF k \in DOMAIN patch THEN patch[k] ELSE row[k]]

\* Mutation: updated_at has no onupdate.
StampNever(row) == row

\* The row after an UPDATE statement: onupdate=func.now() stamps updated_at.
Stamp(row) == [row EXCEPT !.updated_at = OnUpdate]

----------------------------------------------------------------------------
(* Patients. *)

PatientRow(email, mrn) ==
    [email |-> email, medical_record_number |-> mrn, is_active |-> DefaultIsActive,
     created_at |-> CreatedAtDefault, updated_at |-> UpdatedAtDefault]

PatientPatches ==
    [email : Emails] \cup [medical_record_number : MRNs] \cup [is_active : BOOLEAN]
        \cup [email : Emails, is_active : BOOLEAN]

CreatePatient(request, email, mrn) ==
    /\ IF PatientUniqueViolation(patients, NewPatientId, email, mrn)
         THEN /\ UNCHANGED patients
              /\ Finish("create", "patient", NewPatientId, request,
                        StoreError("ConflictError", "none"))
         ELSE /\ ParentRoom
              /\ patients' = InsertRow(patients, NewPatientId, PatientRow(email, mrn))
              /\ Finish("create", "patient", NewPatientId, request, NoExc)
    /\ UNCHANGED <<providers, appointments, medications, messages, health_alerts,
                   clock, inflight, created>>

UpdatePatient(request, id, patch) ==
    /\ IF ~Exists(patients, id)
         THEN /\ UNCHANGED patients
              /\ Finish("update", "patient", id, request,
                        StoreError("NotFoundError", "none"))
         ELSE LET row == Merge(patients[id], patch) IN
              IF PatientUniqueViolation(patients, id, row.email,
                                        row.medical_record_number)
                THEN /\ UNCHANGED patients
                     /\ Finish("update", "patient", id, request,
                               StoreError("ConflictError", "none"))
                ELSE /\ patients' = UpdateRow(patients, id, Stamp(row))
                     /\ Finish("update", "patient", id, request, NoExc)
    /\ UNCHANGED <<providers, appointments, medications, messages, health_alerts,
                   clock, inflight, created>>

ReadPatient(request, id) ==
    /\ Finish("read", "patient", id, request,
              IF Exists(patients, id) THEN NoExc
              ELSE StoreError("NotFoundError", "none"))
    /\ UNCHANGED <<tables, clock, inflight, created>>

----------------------------------------------------------------------------
(* Providers. *)

ProviderRow(email) ==
    [email |-> email, is_active |-> DefaultIsActive,
     created_at |-> CreatedAtDefault, updated_at |-> UpdatedAtDefault]

CreateProvider(request, email) ==
    /\ IF ProviderUniqueViolation(providers, NewProviderId, email)
         THEN /\ UNCHANGED providers
              /\ Finish("create", "provider", NewProviderId, request,
                        StoreError("ConflictError", "none"))
         ELSE /\ ParentRoom
              /\ providers' = InsertRow(providers, NewProviderId, ProviderRow(email))
              /\ Finish("create", "provider", NewProviderId, request, NoExc)
    /\ UNCHANGED <<patients, appointments, medications, messages, health_alerts,
                   clock, inflight, created>>

----------------------------------------------------------------------------
(* Appointments. *)

\* A create that names no status.
Omitted == "<omitted>"

AppointmentRow(pid, vid, date, status) ==
    [patient_id |-> pid, provider_id |-> vid, appointment_date |-> date,
     status |-> IF status = Omitted THEN DefaultAppointmentStatus ELSE status,
     created_at |-> CreatedAtDefault, updated_at |-> UpdatedAtDefault]

CreateAppointment(request, pid, vid, date, status) ==
    /\ IF PatientFkViolation(pid) \/ ProviderFkViolation(vid)
         THEN /\ UNCHANGED <<appointments, created>>
              /\ Finish("create", "appointment", NewAppointmentId, request,
                        StoreError("ValidationError", "none"))
         ELSE /\ Room
              /\ appointments' =
                    InsertRow(appointments, NewAppointmentId,
                              AppointmentRow(pid, vid, date, status))
              /\ created' = Append(created,
                    [id |-> NewAppointmentId, patient_id |-> pid, provider_id |-> vid,
                     appointment_date |-> date, status |-> status])
              /\ Finish("create", "appointment", NewAppointmentId, request, NoExc)
    /\ UNCHANGED <<patients, providers, medications, messages, health_alerts,
                   clock, inflight>>

\* status is a plain String(20) column: any value may follow any other.
UpdateAppointment(request, id, patch) ==
    /\ IF ~Exists(appointments, id)
         THEN /\ UNCHANGED appointments
              /\ Finish("update", "appointment", id, request,
                        StoreError("NotFoundError", "none"))
         ELSE LET row == Merge(appointments[id], patch) IN
              IF PatientFkViolation(row.patient_id) \/ ProviderFkViolation(row.provider_id)
                THEN /\ UNCHANGED appointments
                     /\ Finish("update", "appointment", id, request,
                               StoreError("ValidationError", "none"))
                ELSE /\ appointments' = UpdateRow(appointments, id, Stamp(row))
                     /\ Finish("update", "appointment", id, request, NoExc)
    /\ UNCHANGED <<patients, providers, medications, messages, health_alerts,
                   clock, inflight, created>>

\* State transition: cancel.
CancelAppointment(request, id) ==
    /\ IF ~Exists(appointments, id)
         THEN /\ UNCHANGED appointments
              /\ Finish("transition", "appointment", id, request,
                        StoreError("NotFoundError", "none"))
         ELSE /\ appointments' = UpdateRow(appointments, id,
                    Stamp([appointments[id] EXCEPT !.status = "cancelled"]))
              /\ Finish("transition", "appointment", id, request, NoExc)
    /\ UNCHANGED <<patients, providers, medications, messages, health_alerts,
                   clock, inflight, created>>

ReadAppointment(request, id) ==
    /\ Finish("read", "appointment", id, request,
              IF Exists(appointments, id) THEN NoExc
              ELSE StoreError("NotFoundError", "none"))
    /\ UNCHANGED <<tables, clock, inflight, created>>

\* Patient.appointments / Appointment.patient: the Appointments whose
\* patient_id is pid.
AppointmentsOf(pid) == {i \in DOMAIN appointments : appointments[i].patient_id = pid}

\* The orders in which the rows S can be returned when sorted by created_at;
\* rows of one created_at come in any order.
OrderedByCreation(S) ==
    {s \in [1..Cardinality(S) -> S] :
        /\ \A a, b \in DOMAIN s : a # b => s[a] # s[b]
        /\ \A a, b \in DOMAIN s :
              a < b => appointments[s[a]].created_at <= appointments[s[b]].created_at}

ListAppointments(request, pid) ==
    /\ \E s \in OrderedByCreation(AppointmentsOf(pid)) :
          /\ result' = [op |-> "list", entity |-> "appointment", id |-> pid,
                        request |-> request, exc |-> NoExc,
                        rows |-> [k \in DOMAIN s |->
                                    [id |-> s[k],
                                     patient_id |-> appointments[s[k]].patient_id,
                                     appointment_date |->
                                        appointments[s[k]].appointment_date,
                                     status |-> appointments[s[k]].status,
                                     created_at |-> appointments[s[k]].created_at]]]
          /\ response' = SuccessResponse
    /\ UNCHANGED <<tables, clock, inflight, created>>

----------------------------------------------------------------------------
(* Medications. *)

MedicationRow(pid, vid) ==
    [patient_id |-> pid, prescriber_id |-> vid, status |-> DefaultMedicationStatus,
     created_at |-> CreatedAtDefault, updated_at |-> UpdatedAtDefault]

CreateMedication(request, pid, vid) ==
    /\ IF PatientFkViolation(pid) \/ ProviderFkViolation(vid)
         THEN /\ UNCHANGED medications
              /\ Finish("create", "medication", NewMedicationId, request,
                        StoreError("ValidationError", "none"))
         ELSE /\ Room
              /\ medications' =
                    InsertRow(medications, NewMedicationId, MedicationRow(pid, vid))
              /\ Finish("create", "medication", NewMedicationId, request, NoExc)
    /\ UNCHANGED <<patients, providers, appointments, messages, health_alerts,
                   clock, inflight, created>>

----------------------------------------------------------------------------
(* Messages. *)

MessageRow(pid, vid) ==
    [patient_id |-> pid, provider_id |-> vid,
     is_read |-> DefaultIsRead, read_at |-> DefaultReadAt,
     created_at |-> CreatedAtDefault, updated_at |-> UpdatedAtDefault]

CreateMessage(request, pid, vid) ==
    /\ IF PatientFkViolation(pid) \/ ProviderFkViolation(vid)
         THEN /\ UNCHANGED messages
              /\ Finish("create", "message", NewMessageId, request,
                        StoreError("ValidationError", "none"))
         ELSE /\ Room
              /\ messages' = InsertRow(messages, NewMessageId, MessageRow(pid, vid))
              /\ Finish("create", "message", NewMessageId, request, NoExc)
    /\ UNCHANGED <<patients, providers, appointments, medications, health_alerts,
                   clock, inflight, created>>

\* is_read and read_at are two columns with no constraint between them.
UpdateMessage(request, id, patch) ==
    /\ IF ~Exists(messages, id)
         THEN /\ UNCHANGED messages
              /\ Finish("update", "message", id, request,
                        StoreError("NotFoundError", "none"))
         ELSE /\ messages' = UpdateRow(messages, id, Stamp(Merge(messages[id], patch)))
              /\ Finish("update", "message", id, request, NoExc)
    /\ UNCHANGED <<patients, providers, appointments, medications, health_alerts,
                   clock, inflight, created>>

\* State transition: mark read.
MarkMessageRead(request, id) ==
    /\ IF ~Exists(messages, id)
         THEN /\ UNCHANGED messages
              /\ Finish("transition", "message", id, request,
                        StoreError("NotFoundError", "none"))
         ELSE /\ messages' = UpdateRow(messages, id,
                    Stamp([messages[id] EXCEPT !.is_read = TRUE, !.read_at = clock]))
              /\ Finish("transition", "message", id, request, NoExc)
    /\ UNCHANGED <<patients, providers, appointments, medications, health_alerts,
                   clock, inflight, created>>

----------------------------------------------------------------------------
(* Health alerts: no updated_at column. *)

HealthAlertRow(pid) ==
    [patient_id |-> pid, is_read |-> DefaultIsRead, read_at |-> DefaultReadAt,
     created_at |-> CreatedAtDefault]

CreateHealthAlert(request, pid) ==
    /\ IF PatientFkViolation(pid)
         THEN /\ UNCHANGED health_alerts
              /\ Finish("create", "health_alert", NewHealthAlertId, request,
                        StoreError("ValidationError", "none"))
         ELSE /\ Room
              /\ health_alerts' =
                    InsertRow(health_alerts, NewHealthAlertId, HealthAlertRow(pid))
              /\ Finish("create", "health_alert", NewHealthAlertId, request, NoExc)
    /\ UNCHANGED <<patients, providers, appointments, medications, messages,
                   clock, inflight, created>>

UpdateHealthAlert(request, id, patch) ==
    /\ IF ~Exists(health_alerts, id)
         THEN /\ UNCHANGED health_alerts
              /\ Finish("update", "health_alert", id, request,
                        StoreError("NotFoundError", "none"))
         ELSE /\ health_alerts' =
                    UpdateRow(health_alerts, id, Merge(health_alerts[id], patch))
              /\ Finish("update", "health_alert", id, request, NoExc)
    /\ UNCHANGED <<patients, providers, appointments, medications, messages,
                   clock, inflight, created>>

MarkHealthAlertRead(request, id) ==
    /\ IF ~Exists(health_alerts, id)
         THEN /\ UNCHANGED health_alerts
              /\ Finish("transition", "health_alert", id, request,
                        StoreError("NotFoundError", "none"))
         ELSE /\ health_alerts' = UpdateRow(health_alerts, id,
                    [health_alerts[id] EXCEPT !.is_read = TRUE, !.read_at = clock])
              /\ Finish("transition", "health_alert", id, request, NoExc)
    /\ UNCHANGED <<patients, providers, appointments, medications, messages,
                   clock, inflight, created>>

ReadPatches == [is_read : BOOLEAN] \cup [read_at : {NULL, clock}]
                  \cup [is_read : BOOLEAN, read_at : {NULL, clock}]

----------------------------------------------------------------------------
(* Concurrent creates of Patients.  A request first looks for a stored      *)
(* Patient with its email or medical record number, and later sends its    *)
(* INSERT; other requests run in between.  The unique indexes are checked  *)
(* by the database as part of the INSERT itself.                           *)

BeginCreatePatient(c, request, email, mrn) ==
    /\ inflight[c].state # "pending"
    /\ IF \E j \in DOMAIN patients :
              patients[j].email = email \/ patients[j].medical_record_number = mrn
         THEN /\ inflight' = [inflight EXCEPT ![c] =
                    [state |-> "failed", phase |-> "check", email |-> email,
                     mrn |-> mrn, request |-> request]]
              /\ Finish("create", "patient", NewPatientId, request,
                        StoreError("ConflictError", "none"))
         ELSE /\ inflight' = [inflight EXCEPT ![c] =
                    [state |-> "pending", phase |-> "check", email |-> email,
                     mrn |-> mrn, request |-> request]]
              /\ UNCHANGED <<result, response>>
    /\ UNCHANGED <<tables, clock, created>>

CommitCreatePatient(c) ==
    /\ inflight[c].state = "pending"
    /\ LET r == inflight[c] IN
       IF PatientUniqueViolation(patients, NewPatientId, r.email, r.mrn)
         THEN /\ UNCHANGED patients
              /\ inflight' = [inflight EXCEPT ![c].state = "failed",
                                               ![c].phase = "insert"]
              /\ Finish("create", "patient", NewPatientId, r.request,
                        StoreError("ConflictError", "none"))
         ELSE /\ ParentRoom
              /\ patients' =
                    InsertRow(patients, NewPatientId, PatientRow(r.email, r.mrn))
              /\ inflight' = [inflight EXCEPT ![c].state = "stored",
                                               ![c].phase = "insert"]
              /\ Finish("create", "patient", NewPatientId, r.request, NoExc)
    /\ UNCHANGED <<providers, appointments, medications, messages, health_alerts,
                   clock, created>>

----------------------------------------------------------------------------
(* Requests that fail outside the store: a route raises an application     *)
(* exception, the framework rejects the request body, or anything else     *)
(* goes wrong.                                                             *)

Raise(request, exc) ==
    /\ Finish("request", "none", NeverCreated, request, exc)
    /\ UNCHANGED <<tables, clock, inflight, created>>

\* Time passes between two requests.
Tick ==
    /\ clock < MaxClock
    /\ clock' = clock + 1
    /\ UNCHANGED <<tables, inflight, created, result, response>>

----------------------------------------------------------------------------
Empty == [i \in {} |-> NULL]

Init ==
    /\ patients = Empty
    /\ providers = Empty
    /\ appointments = Empty
    /\ medications = Empty
    /\ messages = Empty
    /\ health_alerts = Empty
    /\ clock = 1
    /\ created = <<>>
    /\ inflight = [c \in 1..MaxClients |-> [state |-> "idle"]]
    /\ result = [op |-> "start", entity |-> "none", id |-> NeverCreated,
                 request |-> NoHeader, exc |-> NoExc]
    /\ response = SuccessResponse

(* Patients alone: creates, partial updates and reads. *)
NextPatient ==
    \/ \E e \in Emails, m \in MRNs : CreatePatient(NoHeader, e, m)
    \/ \E i \in Targets(patients), p \in PatientPatches : UpdatePatient(NoHeader, i, p)
    \/ \E i \in Targets(patients) : ReadPatient(NoHeader, i)
    \/ Tick

SpecPatient == Init /\ [][NextPatient]_vars

(* Two or more clients creating Patients at once. *)
NextConc ==
    \/ \E c \in 1..MaxClients, e \in Emails, m \in MRNs :
          BeginCreatePatient(c, NoHeader, e, m)
    \/ \E c \in 1..MaxClients : CommitCreatePatient(c)

SpecConc == Init /\ [][NextConc]_vars

(* Parents and the rows that reference them. *)
RefPatches == [patient_id : RefIds] \cup [provider_id : RefIds]

NextRefs ==
    \/ \E x \in {<<"a@x.com", "MRN-1">>, <<"b@x.com", "MRN-2">>} :
          CreatePatient(NoHeader, x[1], x[2])
    \/ CreateProvider(NoHeader, "b@x.com")
    \/ \E p, v \in RefIds : CreateAppointment(NoHeader, p, v, 10, Omitted)
    \/ \E p \in Targets(patients), v \in Targets(providers) :
          CreateMedication(NoHeader, p, v)
    \/ \E p \in Targets(patients), v \in Targets(providers) :
          CreateMessage(NoHeader, p, v)
    \/ \E i \in Targets(appointments), p \in RefPatches :
          UpdateAppointment(NoHeader, i, p)

SpecRefs == Init /\ [][NextRefs]_vars

(* Messages and health alerts: creates, partial updates, mark-read. *)
NextRead ==
    \/ CreatePatient(NoHeader, "a@x.com", "MRN-1")
    \/ CreateProvider(NoHeader, "b@x.com")
    \/ \E p \in Targets(patients), v \in Targets(providers) :
          CreateMessage(NoHeader, p, v)
    \/ \E p \in Targets(patients) : CreateHealthAlert(NoHeader, p)
    \/ \E i \in Targets(messages), p \in ReadPatches : UpdateMessage(NoHeader, i, p)
    \/ \E i \in Targets(health_alerts), p \in ReadPatches :
          UpdateHealthAlert(NoHeader, i, p)
    \/ \E i \in Targets(messages) : MarkMessageRead(NoHeader, i)
    \/ \E i \in Targets(health_alerts) : MarkHealthAlertRead(NoHeader, i)
    \/ Tick

SpecRead == Init /\ [][NextRead]_vars

(* Appointments: creates, status updates, cancel, read. *)
NextAppt ==
    \/ CreatePatient(NoHeader, "a@x.com", "MRN-1")
    \/ CreateProvider(NoHeader, "b@x.com")
    \/ \E p \in Targets(patients), v \in Targets(providers),
          st \in {Omitted, "completed"} : CreateAppointment(NoHeader, p, v, 10, st)
    \/ \E h \in {NoHeader, "req-1"}, i \in Targets(appointments),
          p \in [status : AppointmentStatuses] : UpdateAppointment(h, i, p)
    \/ \E h \in {NoHeader, "req-1"}, i \in Targets(appointments) :
          CancelAppointment(h, i)
    \/ \E h \in {NoHeader, "req-1"}, i \in Targets(appointments) :
          ReadAppointment(h, i)
    \/ \E i \in Targets(patients) : ReadPatient(NoHeader, i)

SpecAppt == Init /\ [][NextAppt]_vars

(* Timestamps: creates and updates of Patients and Appointments as time passes. *)
NextTime ==
    \/ CreatePatient(NoHeader, "a@x.com", "MRN-1")
    \/ CreateProvider(NoHeader, "b@x.com")
    \/ \E p \in Targets(patients), v \in Targets(providers) :
          CreateAppointment(NoHeader, p, v, 10, Omitted)
    \/ \E i \in Targets(patients), p \in [is_active : BOOLEAN] :
          UpdatePatient(NoHeader, i, p)
    \/ \E i \in Targets(appointments), p \in [status : {"confirmed"}] :
          UpdateAppointment(NoHeader, i, p)
    \/ Tick

SpecTime == Init /\ [][NextTime]_vars

(* Listing the Appointments of a Patient after creates. *)
NextList ==
    \/ \E x \in {<<"a@x.com", "MRN-1">>, <<"b@x.com", "MRN-2">>} :
          CreatePatient(NoHeader, x[1], x[2])
    \/ CreateProvider(NoHeader, "b@x.com")
    \/ \E p \in Targets(patients), v \in Targets(providers),
          x \in {<<10, Omitted>>, <<20, "confirmed">>} :
          CreateAppointment(NoHeader, p, v, x[1], x[2])
    \/ \E p \in Targets(patients) : ListAppointments(NoHeader, p)
    \/ Tick

SpecList == Init /\ [][NextList]_vars

(* The HTTP layer: requests that end in an exception. *)
NextHttp ==
    \/ \E h \in Headers, e \in ApplicationExceptions : Raise(h, e)
    \/ \E h \in Headers, e \in ValidationExceptions : Raise(h, e)
    \/ \E h \in Headers, e \in UnexpectedExceptions : Raise(h, e)
    \/ Tick

SpecHttp == Init /\ [][NextHttp]_vars

----------------------------------------------------------------------------
(* Properties. *)

\* Some stored Patient holds this email or this medical record number.
Duplicates(email, mrn) ==
    \E j \in DOMAIN patients :
        patients[j].email = email \/ patients[j].medical_record_number = mrn

NoTwoPatientsAlike ==
    \A i, j \in DOMAIN patients :
        i # j => /\ patients[i].email # patients[j].email
                 /\ patients[i].medical_record_number
                        # patients[j].medical_record_number

Raised(name) == result.exc.class = "PatientPortalException" /\ result.exc.name = name

\* C1: a create of a Patient whose email or medical record number is already
\* stored fails with ConflictError and changes no table, so the stored Patient
\* keeps every field; and no state holds two Patients with the same email or
\* the same medical record number.
C1_DuplicatePatientRejected ==
    /\ []NoTwoPatientsAlike
    /\ [][\A e \in Emails, m \in MRNs :
            (Duplicates(e, m) /\ CreatePatient(NoHeader, e, m))
                => /\ Raised("ConflictError")'
                   /\ tables' = tables]_vars

\* C1 witness: a create has just been refused with ConflictError while a
\* Patient is stored.
C1_Witness ==
    /\ result.op = "create" /\ result.entity = "patient"
    /\ Raised("ConflictError")
    /\ DOMAIN patients # {}

\* C2: of the create-Patient requests of different clients that carry the
\* same email or the same medical record number at most one is stored, however
\* their pre-checks and INSERTs interleave; the table never holds both rows.
C2_ConcurrentCreatesExclusive ==
    /\ NoTwoPatientsAlike
    /\ \A c, d \in DOMAIN inflight :
          (/\ c # d
           /\ inflight[c].state = "stored"
           /\ inflight[d].state = "stored")
              => /\ inflight[c].email # inflight[d].email
                 /\ inflight[c].mrn # inflight[d].mrn

\* C2 witness: two clients asked for the same email, both passed the pre-check,
\* one was stored and the other was refused by its INSERT.
C2_Witness ==
    \E c, d \in DOMAIN inflight :
        /\ c # d
        /\ inflight[c].state = "stored"
        /\ inflight[d].state = "failed" /\ inflight[d].phase = "insert"
        /\ inflight[c].email = inflight[d].email

ReferencesIntact ==
    /\ \A i \in DOMAIN appointments :
          /\ appointments[i].patient_id \in DOMAIN patients
          /\ appointments[i].provider_id \in DOMAIN providers
    /\ \A i \in DOMAIN medications :
          /\ medications[i].patient_id \in DOMAIN patients
          /\ medications[i].prescriber_id \in DOMAIN providers
    /\ \A i \in DOMAIN messages :
          /\ messages[i].patient_id \in DOMAIN patients
          /\ messages[i].provider_id \in DOMAIN providers

\* C3: a create of an Appointment, Medication or Message whose patient id or
\* provider id names no stored Patient or Provider fails with ValidationError
\* and changes no table; every stored Appointment, Medication and Message
\* references a stored Patient and a stored Provider.
C3_DanglingReferenceRejected ==
    /\ []ReferencesIntact
    /\ [][\A p, v \in RefIds :
            (/\ p \notin DOMAIN patients \/ v \notin DOMAIN providers
             /\ \/ CreateAppointment(NoHeader, p, v, 10, Omitted)
                \/ CreateMedication(NoHeader, p, v)
                \/ CreateMessage(NoHeader, p, v))
                => /\ Raised("ValidationError")'
                   /\ tables' = tables]_vars

\* C3 witness: a create of a Message was refused with ValidationError while an
\* Appointment is stored.
C3_Witness ==
    /\ result.op = "create" /\ result.entity = "message"
    /\ Raised("ValidationError")
    /\ DOMAIN appointments # {}

\* C4: every stored Message and HealthAlert has is_read true exactly when
\* read_at is set.
C4_ReadFlagMatchesTimestamp ==
    /\ \A i \in DOMAIN messages :
          messages[i].is_read <=> messages[i].read_at # NULL
    /\ \A i \in DOMAIN health_alerts :
          health_alerts[i].is_read <=> health_alerts[i].read_at # NULL

\* The transitions of an Appointment's status: forward from scheduled and from
\* confirmed; completed, cancelled and no-show are final.
AllowedTransition(from, to) ==
    \/ from = "scheduled" /\ to \in {"confirmed", "completed", "cancelled", "no-show"}
    \/ from = "confirmed" /\ to \in {"completed", "cancelled", "no-show"}

\* C5: the status of a stored Appointment changes only along an allowed
\* transition; an update of a completed Appointment to an earlier status is
\* refused with ValidationError and the status stays completed.
C5_StatusTransitionsAllowed ==
    [][\A i \in DOMAIN appointments :
          /\ appointments'[i].status # appointments[i].status
                => AllowedTransition(appointments[i].status, appointments'[i].status)
          /\ (/\ appointments[i].status = "completed"
              /\ UpdateAppointment(NoHeader, i, [status |-> "scheduled"]))
                => /\ Raised("ValidationError")'
                   /\ appointments'[i].status = "completed"]_vars

\* The step is a successful update of row i of the named table.
UpdatedNow(entity, i) ==
    /\ clock' = clock
    /\ result'.op = "update" /\ result'.entity = entity /\ result'.id = i
    /\ result'.exc.class = "none"

\* What every step keeps of the timestamps of table t, whose rows are those of
\* the named entity: a new row has no updated_at, created_at never changes, and
\* updated_at changes only in a successful update of the row.
TimestampsKept(t, tNext, entity) ==
    /\ \A i \in DOMAIN tNext \ DOMAIN t :
          tNext[i].updated_at = NULL /\ tNext[i].created_at = clock
    /\ \A i \in DOMAIN t :
          /\ i \in DOMAIN tNext
          /\ tNext[i].created_at = t[i].created_at
          /\ ~UpdatedNow(entity, i) => tNext[i].updated_at = t[i].updated_at

\* C6 as stated: updated_at is unset after the insert and until the first
\* successful update, created_at never changes, and every successful update
\* makes updated_at strictly greater than it was, also when two updates of the
\* row are made at one clock reading.
C6_UpdatedAtStrictlyIncreases ==
    [][/\ TimestampsKept(patients, patients', "patient")
       /\ TimestampsKept(appointments, appointments', "appointment")
       /\ \A i \in DOMAIN patients :
             UpdatedNow("patient", i) => patients'[i].updated_at > patients[i].updated_at
       /\ \A i \in DOMAIN appointments :
             UpdatedNow("appointment", i)
                => appointments'[i].updated_at > appointments[i].updated_at]_vars

\* C6 as amended: updated_at is unset after the insert and until the first
\* successful update, created_at never changes, and every successful update
\* sets updated_at to the clock reading of the update, which is never less than
\* the value it replaces and is greater exactly when the clock has moved on
\* since the row was last written.
C6_UpdatedAtIsClockOfLastUpdate ==
    [][/\ TimestampsKept(patients, patients', "patient")
       /\ TimestampsKept(appointments, appointments', "appointment")
       /\ \A i \in DOMAIN patients :
             UpdatedNow("patient", i)
                => /\ patients'[i].updated_at = clock
                   /\ patients'[i].updated_at >= patients[i].updated_at
       /\ \A i \in DOMAIN appointments :
             UpdatedNow("appointment", i)
                => /\ appointments'[i].updated_at = clock
                   /\ appointments'[i].updated_at >= appointments[i].updated_at]_vars

\* C6 witness: an Appointment created at one clock reading has just been
\* updated at a later one, and a Patient was updated before.
C6_Witness ==
    /\ result.op = "update" /\ result.entity = "appointment"
    /\ result.exc.class = "none"
    /\ result.id \in DOMAIN appointments
    /\ appointments[result.id].updated_at > appointments[result.id].created_at
    /\ \E i \in DOMAIN patients : patients[i].updated_at # NULL

TableOf(entity) ==
    CASE entity = "patient" -> patients
      [] entity = "provider" -> providers
      [] entity = "appointment" -> appointments
      [] entity = "medication" -> medications
      [] entity = "message" -> messages
      [] entity = "health_alert" -> health_alerts
      [] OTHER -> Empty

\* C7: a read, an update or a state transition that names an id with no row
\* fails with NotFoundError, which reaches the caller as a 404 carrying that
\* error code; no table changes, so no row with that id appears.
C7_UnknownIdNotFound ==
    [][(/\ result'.op \in {"read", "update", "transition"}
        /\ result'.id \notin DOMAIN TableOf(result'.entity))
          => /\ Raised("NotFoundError")'
             /\ tables' = tables
             /\ response'.status_code = 404
             /\ response'.content.success = FALSE
             /\ response'.content.error.code = "NotFoundError"]_vars

\* C7 witness: a cancel of an Appointment that was never created has just been
\* refused while another Appointment is stored.
C7_Witness ==
    /\ result.op = "transition" /\ result.entity = "appointment"
    /\ result.id = NeverCreated
    /\ Raised("NotFoundError")
    /\ DOMAIN appointments # {}

\* C8: every response to a request that raised an exception has the envelope
\* {success, error: {code, message, details}, meta: {timestamp, request_id}}
\* with success false and request_id the X-Request-ID header or "unknown"; its
\* status code is the exception's own for an application exception, 422 for a
\* request validation error and 500 for any other exception.
C8_UniformErrorEnvelope ==
    result.exc.class # "none" =>
        /\ DOMAIN response = {"status_code", "content"}
        /\ DOMAIN response.content = {"success", "error", "meta"}
        /\ response.content.success = FALSE
        /\ DOMAIN response.content.error = {"code", "message", "details"}
        /\ DOMAIN response.content.meta = {"timestamp", "request_id"}
        /\ response.content.meta.request_id =
              (IF result.request \in RequestIds THEN result.request ELSE "unknown")
        /\ response.status_code =
              (CASE result.exc.class = "PatientPortalException" -> result.exc.status_code
                 [] result.exc.class = "RequestValidationError" -> 422
                 [] OTHER -> 500)

\* C8 witness: a request without the header was rejected by request validation.
C8_Witness ==
    /\ result.exc.class = "RequestValidationError"
    /\ result.request = NoHeader
    /\ response.status_code = 422
    /\ response.content.meta.request_id = "unknown"

\* C9: two unexpected exceptions raised under the same X-Request-ID get
\* responses that differ at most in meta.timestamp: status 500, code
\* INTERNAL_SERVER_ERROR, one fixed message and null details, whatever the
\* exceptions are.
C9_UnexpectedFailureOpaque ==
    [][(/\ result.exc.class = "Exception"
        /\ result'.exc.class = "Exception"
        /\ result'.request = result.request)
          => /\ response'.status_code = 500
             /\ response'.status_code = response.status_code
             /\ response'.content.success = response.content.success
             /\ response'.content.error = response.content.error
             /\ response'.content.error.code = "INTERNAL_SERVER_ERROR"
             /\ response'.content.error.details = "null"
             /\ response'.content.meta.request_id = response.content.meta.request_id]_vars

\* C9 witness: a database connection failure has just been answered.
C9_Witness ==
    /\ result.exc.class = "Exception"
    /\ result.exc.type = "OperationalError"
    /\ result.exc.text = "could not connect to server db-1"
    /\ response.status_code = 500

\* The positions in the creation log of the Appointments created for patient pid.
CreatedFor(pid) == {k \in DOMAIN created : created[k].patient_id = pid}

\* C10: a list of the Appointments of patient P returns each Appointment that
\* was created for P once and no other, in the order of created_at, each with
\* the scheduled time it was created with and the status it was created with,
\* which is scheduled when the create named none.
C10_ListReturnsCreated ==
    result.op = "list" =>
        LET rows == result.rows
            mine == CreatedFor(result.id)
        IN  /\ Len(rows) = Cardinality(mine)
            /\ {rows[k].id : k \in DOMAIN rows} = {created[k].id : k \in mine}
            /\ \A a, b \in DOMAIN rows : a < b => rows[a].created_at <= rows[b].created_at
            /\ \A k \in DOMAIN rows : \E c \in mine :
                  /\ created[c].id = rows[k].id
                  /\ rows[k].patient_id = result.id
                  /\ rows[k].appointment_date = created[c].appointment_date
                  /\ rows[k].status =
                        (IF created[c].status = Omitted THEN "scheduled"
                         ELSE created[c].status)

\* C10 witness: with Appointments stored for two Patients, the list for one of
\* them has exactly one row, created without a status and returned as scheduled.
C10_Witness ==
    /\ result.op = "list"
    /\ Len(result.rows) = 1
    /\ result.rows[1].status = "scheduled"
    /\ \E k \in DOMAIN created :
          created[k].patient_id # result.id /\ created[k].patient_id \in DOMAIN patients
    /\ \E k \in CreatedFor(result.id) : created[k].status = Omitted

====
